---- MODULE Spec2Model ----
(***************************************************************************)
(* Model of the render scripts of blender_studio:                          *)
(*   src/render_scripts/compose_comparison.py                              *)
(*     find_image_for_part, get_all_part_ids, blur_edges, add_soft_shadow, *)
(*     compose_comparison, main;                                           *)
(*   src/render_scripts/animated_comparison.py                             *)
(*     AnimatedRenderContext.render, find_mesh_for_part,                   *)
(*     render_animated_part;                                               *)
(*   src/render_context.py                                                 *)
(*     RenderContext.import_mesh, remove_current_mesh.                     *)
(*                                                                         *)
(* Five specifications share the module:                                   *)
(*   Spec        main() driving compose_comparison() over a file system    *)
(*   SpecRerun   the same, the script being run a second time              *)
(*   SpecBlur    blur_edges() on one small RGBA image, pixel by pixel      *)
(*   SpecShadow  add_soft_shadow(), observed along the middle pixel row    *)
(*   SpecAnim    render_animated_part(), run and run a second time         *)
(*                                                                         *)
(* Images are carried as their size in Spec (the layout arithmetic and the *)
(* order of canvas operations are what compose_comparison decides); their  *)
(* pixels are modelled in SpecBlur and SpecShadow.  Every file that        *)
(* discovery can select is assumed to be a decodable raster, every mesh    *)
(* file an importable mesh of one object, and the RenderContext that       *)
(* animated_comparison.py imports is taken to be the class of              *)
(* render_context.py with the materials the script names.                  *)
(***************************************************************************)
EXTENDS Integers, Sequences, FiniteSets, TLC

\* ------------------------------------------------------------------ bounds
MaxDim == 8        \* largest small image side drawn for the file system

\* ------------------------------------------------------------ small helpers
Max(S) == CHOOSE m \in S : \A n \in S : n <= m

Min(S) == CHOOSE m \in S : \A n \in S : m <= n

\* An optional value is a sequence of at most one element.
None == <<>>

Some(v) == <<v>>

\* a directory that does not exist
NoDirectory == [exists |-> FALSE, entries |-> <<>>]

\* ------------------------------------------------------------ file names
\* A file name is a sequence of one-character strings.
Ord(c) ==
    CASE c = "." -> 46
      [] c = "7" -> 55
      [] c = "8" -> 56
      [] c = "_" -> 95
      [] c = "g" -> 103
      [] c = "j" -> 106
      [] c = "n" -> 110
      [] c = "p" -> 112
      [] c = "r" -> 114
      [] OTHER -> 0

\* str.startswith
StartsWith(name, prefix) ==
    /\ Len(prefix) <= Len(name)
    /\ SubSeq(name, 1, Len(prefix)) = prefix

\* name.split("_")[0]: the text before the first underscore (all of it if none)
SplitFirst(name) ==
    LET us == {k \in 1..Len(name) : name[k] = "_"}
    IN  IF us = {} THEN name ELSE SubSeq(name, 1, Min(us) - 1)

\* pathlib's Path.suffix: from the last dot on, a leading dot not counting
Suffix(name) ==
    LET dots == {k \in 2..Len(name) : name[k] = "."}
    IN  IF dots = {} THEN <<>> ELSE SubSeq(name, Max(dots), Len(name))

\* str < str of Python: lexicographic by code point
RECURSIVE LexLess(_, _)
LexLess(s, t) ==
    IF t = <<>> THEN FALSE
    ELSE IF s = <<>> THEN TRUE
    ELSE IF Ord(Head(s)) # Ord(Head(t)) THEN Ord(Head(s)) < Ord(Head(t))
    ELSE LexLess(Tail(s), Tail(t))

\* sorted(set_of_str)
RECURSIVE Sorted(_)
Sorted(S) ==
    IF S = {} THEN <<>>
    ELSE LET m == CHOOSE a \in S : \A b \in S \ {a} : LexLess(a, b)
         IN  <<m>> \o Sorted(S \ {m})

\* ------------------------------------------------------------ file system
IdA == <<"7">>

IdB == <<"7", "7">>

IdC == <<"8">>

PartIdPool == {IdA, IdB, IdC}

Png == <<"p", "n", "g">>

Jpg == <<"j", "p", "g">>

\* "<id>_r.<ext>", the shape of a rendered file's name
FileName(id, ext) == id \o <<"_", "r", ".">> \o ext

Entry(id, ext, size) == [name |-> FileName(id, ext), isFile |-> TRUE, size |-> size]

\* the keys of image_paths, in the dict's insertion order
KeyOrder ==
    <<"partfield_T0", "partfield_T1", "partfield_T2", "ours_T0", "ours_T1", "ours_T2">>

Keys == {KeyOrder[k] : k \in 1..6}

\* image_paths: key -> <<method directory, tesselation directory>>
image_paths ==
    [k \in Keys |->
        CASE k = "partfield_T0" -> <<"partfield", "default_partfield240">>
          [] k = "partfield_T1" -> <<"partfield", "finer_partfield240">>
          [] k = "partfield_T2" -> <<"partfield", "coarser_partfield240">>
          [] k = "ours_T0" -> <<"ours", "default_meshes240">>
          [] k = "ours_T1" -> <<"ours", "finer_meshes240">>
          [] k = "ours_T2" -> <<"ours", "coarser_meshes240">>]

SixDirs == {image_paths[k] : k \in Keys}

\* two more directories a base directory may hold under ours/
OldDir == <<"ours", "old_meshes">>

DotDir == <<"ours", ".thumbs">>

AllDirs == SixDirs \cup {OldDir, DotDir}

\* tesselation_dir.name.startswith('.')
DirNameStartsWithDot(d) == d = DotDir

Reverse(s) == [k \in 1..Len(s) |-> s[Len(s) + 1 - k]]

\* Sizes of the rendered images: a family of small sizes and the 512x512
\* of the renderer's output.
Dims == ((1..MaxDim) \X (1..MaxDim)) \cup {<<512, 512>>}

BaseDim == <<MaxDim, MaxDim>>

OtherDim == <<MaxDim - 1, MaxDim + 1>>

\* every one of the six directories holds one png per identifier of P
BaseFs(P, size) ==
    [d \in AllDirs |->
        IF d \in SixDirs
        THEN [exists |-> TRUE,
              entries |-> [k \in 1..Cardinality(P) |-> Entry(Sorted(P)[k], Png, size)]]
        ELSE NoDirectory]

\* one departure from BaseFs, in directory dir, for the file of identifier t
PertKinds == {"remove", "notfile", "resize", "jpg", "nodir", "reverse"}

Perturb(fsys, kind, dir, t) ==
    LET old == fsys[dir].entries
        hit(e) == SplitFirst(e.name) = t
        new ==
            CASE kind = "remove" -> SelectSeq(old, LAMBDA e : ~hit(e))
              [] kind = "notfile" ->
                    [k \in 1..Len(old) |->
                        IF hit(old[k]) THEN [old[k] EXCEPT !.isFile = FALSE] ELSE old[k]]
              [] kind = "resize" ->
                    [k \in 1..Len(old) |->
                        IF hit(old[k]) THEN [old[k] EXCEPT !.size = OtherDim] ELSE old[k]]
              [] kind = "jpg" ->
                    [k \in 1..Len(old) |->
                        IF hit(old[k]) THEN Entry(t, Jpg, old[k].size) ELSE old[k]]
              [] kind = "nodir" -> <<>>
              [] kind = "reverse" -> Reverse(old)
    IN  [fsys EXCEPT ![dir] = IF kind = "nodir" THEN NoDirectory
                               ELSE [exists |-> TRUE, entries |-> new]]

WithExtra(fsys, x) ==
    CASE x = "none" -> fsys
      [] x = "old" ->
            [fsys EXCEPT ![OldDir] =
                [exists |-> TRUE, entries |-> <<Entry(IdC, Png, BaseDim)>>]]
      [] x = "dot" ->
            [fsys EXCEPT ![DotDir] =
                [exists |-> TRUE, entries |-> <<Entry(IdC, Png, BaseDim)>>]]

IdSets == {{}, {IdA}, {IdA, IdB}}

FileSystems ==
    {BaseFs({IdA}, size) : size \in Dims}
    \cup {WithExtra(BaseFs(P, BaseDim), x) : P \in IdSets, x \in {"none", "old", "dot"}}
    \cup {Perturb(BaseFs(P, BaseDim), kind, dir, t) :
            P \in IdSets \ {{}}, kind \in PertKinds, dir \in SixDirs, t \in {IdA, IdB}}

\* ------------------------------------------------------------------ state
VARIABLES
    fs,             \* input tree: directory -> [exists, entries in iterdir() order]
    baseExists,     \* base_dir.exists()
    argPartId,      \* --part-id, None when not given
    outDir,         \* the comparisons/ directory exists
    outputs,        \* comparisons/<part_id>.png: None or Some(file content)
    mainPc,         \* where main() is
    part_ids,       \* main: the list being processed
    i,              \* main: enumerate(part_ids, 1)
    successful,     \* main
    failed,         \* main
    tally,          \* the "Completed: .. successful, .. failed" line, None until printed
    cPc,            \* where compose_comparison() is
    cK,             \* compose_comparison: position in image_paths / images
    images,         \* compose_comparison: key -> opened image
    img_size,       \* compose_comparison: <<img_width, img_height>>
    images_to_use,  \* compose_comparison: key -> edge-faded image
    composite,      \* compose_comparison: the canvas
    cRow,           \* compose_comparison: row_idx
    cCol,           \* compose_comparison: col_idx
    result          \* compose_comparison: the value returned

VARIABLES
    bImg,           \* blur_edges: img, after the conversion to RGBA
    bSize,          \* blur_edges: blur_size
    bResult,        \* blur_edges: result
    bX,             \* blur_edges: x
    bY,             \* blur_edges: y
    bPc             \* where blur_edges() is

VARIABLES
    sImg,           \* add_soft_shadow: img, its middle pixel row
    shadow_size,    \* add_soft_shadow
    shadow_opacity, \* add_soft_shadow
    sI,             \* add_soft_shadow: i
    shadow,         \* add_soft_shadow: the middle pixel row of shadow
    sPc             \* where add_soft_shadow() is

VARIABLES
    run,            \* which execution of the script this is: 1, then 2
    returned,       \* run -> identifier -> what compose_comparison returned for it
    firstOutputs    \* the comparisons/ files as the first execution left them

blurVars == <<bImg, bSize, bResult, bX, bY, bPc>>

shadowVars == <<sImg, shadow_size, shadow_opacity, sI, shadow, sPc>>

rerunVars == <<run, returned, firstOutputs>>

VARIABLES
    aPartId,         \* render_animated_part: part_id
    blendExists,     \* blend_file.exists()
    processedExists, \* processed_dir.exists()
    meshDirs,        \* variant -> None, or Some(the mesh files of its directory)
    files,           \* the frame files under animated/<part_id>/
    aPc,             \* where render_animated_part() is
    aV,              \* render_animated_part: position in render_configs
    frame,           \* render_animated_part: frame
    mesh_path,       \* render_animated_part: mesh_path
    current_mesh,    \* RenderContext.current_mesh
    mesh_stem,       \* RenderContext.mesh_stem
    objects,         \* the imported mesh objects in bpy.data.objects
    aResult,         \* the value render_animated_part returned
    aRun,            \* which execution of the script this is: 1, then 2
    filesAtStart,    \* the frame files there were when this execution began
    written,         \* the frame files this execution has rendered
    renders,         \* the number of render() calls of this execution
    imported         \* the variants whose mesh this execution has imported

animVars ==
    <<aPartId, blendExists, processedExists, meshDirs, files, aPc, aV, frame,
      mesh_path, current_mesh, mesh_stem, objects, aResult, aRun, filesAtStart,
      written, renders, imported>>

mainVars ==
    <<fs, baseExists, argPartId, outDir, outputs, mainPc, part_ids, i, successful,
      failed, tally, cPc, cK, images, img_size, images_to_use, composite, cRow, cCol,
      result>>

\* ------------------------------------------------- discovery (pure in fs)
\* find_image_for_part without its is_file() test
find_image_for_part_AnyEntry(part_id, directory) ==
    IF ~fs[directory].exists THEN None
    ELSE LET es == fs[directory].entries
             hits == {k \in 1..Len(es) : StartsWith(es[k].name, part_id)}
         IN  IF hits = {} THEN None ELSE Some(es[Min(hits)])

\* find_image_for_part: the first entry, in iteration order, that is a file
\* and whose name starts with part_id
find_image_for_part(part_id, directory) ==
    IF ~fs[directory].exists THEN None
    ELSE LET es == fs[directory].entries
             hits == {k \in 1..Len(es) : es[k].isFile /\ StartsWith(es[k].name, part_id)}
         IN  IF hits = {} THEN None ELSE Some(es[Min(hits)])

\* get_all_part_ids: the text before the first underscore of every .png file
\* of every non-hidden directory under ours/ and partfield/
get_all_part_ids ==
    UNION {IF ~fs[d].exists \/ DirNameStartsWithDot(d) THEN {}
           ELSE LET es == fs[d].entries
                IN  {SplitFirst(es[k].name) :
                        k \in {n \in 1..Len(es) :
                                 es[n].isFile /\ Suffix(es[n].name) = <<".">> \o Png}}
           : d \in AllDirs}

\* --------------------------------------------------- layout (pure in size)
label_width == 100

label_overlay == 20

left_padding == 20

\* the blur_size compose_comparison passes to blur_edges
EdgeBlurSize == 150

\* int(img_width * 0.15); the double product truncates to (15 * n) \div 100
\* for every n up to 20000
horizontal_overlap(img_width) == (img_width * 15) \div 100

vertical_overlap(img_height) == (img_height * 15) \div 100

total_width(img_width) == img_width + (img_width - horizontal_overlap(img_width)) * 2

total_height(img_height) == img_height + (img_height - vertical_overlap(img_height))

composite_width(img_width) == left_padding + label_width + total_width(img_width)

composite_height(img_height) == total_height(img_height)

base_x == left_padding + label_width

\* CellX with the overlap subtracted once instead of once per column
CellX_OverlapOnce(col_idx, img_width) ==
    IF col_idx = 0 THEN base_x
    ELSE base_x + col_idx * img_width - horizontal_overlap(img_width)

\* x of the cell in column col_idx (0..2)
CellX(col_idx, img_width) ==
    IF col_idx = 0 THEN base_x
    ELSE base_x + col_idx * (img_width - horizontal_overlap(img_width))

\* y of the cell in row row_idx (0..1)
CellY(row_idx, img_height) ==
    IF row_idx = 0 THEN 0 ELSE img_height - vertical_overlap(img_height)

\* y of the row label's centre
RowLabelY(row_idx, img_height) ==
    IF row_idx = 0 THEN img_height \div 2
    ELSE img_height - vertical_overlap(img_height)
            + (img_height - vertical_overlap(img_height)) \div 2

\* x of the column label's centre
ColLabelX(col_idx, img_width) ==
    IF col_idx = 0 THEN base_x + img_width \div 2
    ELSE base_x + col_idx * (img_width - horizontal_overlap(img_width))
            + img_width \div 2

row_labels == <<"partfield", "ours">>

column_labels == <<<<"T0", "default">>, <<"T1", "finer">>, <<"T2", "coarser">>>>

\* layout with the two rows exchanged
layout_RowsSwapped ==
    <<<<"ours_T0", "ours_T1", "ours_T2">>,
      <<"partfield_T0", "partfield_T1", "partfield_T2">>>>

layout ==
    <<<<"partfield_T0", "partfield_T1", "partfield_T2">>,
      <<"ours_T0", "ours_T1", "ours_T2">>>>

\* an opened image: the file it came from, its size, its mode, and the
\* edge-fade band applied to it (0: none)
OpenImage(entry) == [name |-> entry.name, size |-> entry.size, mode |-> "RGBA", band |-> 0]

\* blur_edges on an image carried by size: same size, faded by blur_size
BlurEdgesOf(img, blur_size) == [img EXCEPT !.band = blur_size]

NoImages == [k \in Keys |-> None]

NoCanvas == [size |-> <<0, 0>>, mode |-> "none", ops |-> <<>>]

StaleFile == [size |-> <<0, 0>>, mode |-> "stale", ops |-> <<>>]

TruncatedFile == [size |-> <<0, 0>>, mode |-> "truncated", ops |-> <<>>]

\* the identifier main() is processing
part_id == part_ids[i]

\* ------------------------------------------------------ compose_comparison
ComposeIdle ==
    /\ cPc = "idle" /\ cK = 0 /\ images = NoImages /\ img_size = <<0, 0>>
    /\ images_to_use = NoImages /\ composite = NoCanvas /\ cRow = 0 /\ cCol = 0

\* the locals of a finished call are discarded
DropLocals ==
    /\ cK' = 0 /\ images' = NoImages /\ img_size' = <<0, 0>>
    /\ images_to_use' = NoImages /\ composite' = NoCanvas /\ cRow' = 0 /\ cCol' = 0

PasteOp(key, x, y) == [op |-> "paste", what |-> key, x |-> x, y |-> y]

TextOp(text, x, y) == [op |-> "text", what |-> text, x |-> x, y |-> y]

\* lines 157-167: one turn of the discovery loop; a missing image returns False
Discover ==
    /\ mainPc = "call" /\ cPc = "discover"
    /\ LET key == KeyOrder[cK]
           img_path == find_image_for_part(part_id, image_paths[key])
       IN  IF img_path = None
           THEN /\ cPc' = "return"
                /\ result' = FALSE
                /\ DropLocals
           ELSE /\ images' = [images EXCEPT ![key] = Some(OpenImage(img_path[1]))]
                /\ cK' = IF cK = 6 THEN 0 ELSE cK + 1
                /\ cPc' = IF cK = 6 THEN "dims" ELSE "discover"
                /\ UNCHANGED <<img_size, images_to_use, composite, cRow, cCol, result>>
    /\ UNCHANGED <<fs, baseExists, argPartId, outDir, outputs, mainPc, part_ids, i,
                   successful, failed, tally>>

\* line 170: the size of partfield_T0 stands for all six
ReadDimensions ==
    /\ mainPc = "call" /\ cPc = "dims"
    /\ img_size' = images["partfield_T0"][1].size
    /\ cPc' = "transform"
    /\ cK' = 1
    /\ UNCHANGED <<fs, baseExists, argPartId, outDir, outputs, mainPc, part_ids, i,
                   successful, failed, tally, images, images_to_use, composite, cRow,
                   cCol, result>>

\* lines 173-175: one turn of the edge-fade loop
Transform ==
    /\ mainPc = "call" /\ cPc = "transform"
    /\ LET key == KeyOrder[cK]
       IN  images_to_use' =
               [images_to_use EXCEPT ![key] = Some(BlurEdgesOf(images[key][1], EdgeBlurSize))]
    /\ cK' = IF cK = 6 THEN 0 ELSE cK + 1
    /\ cPc' = IF cK = 6 THEN "layout" ELSE "transform"
    /\ UNCHANGED <<fs, baseExists, argPartId, outDir, outputs, mainPc, part_ids, i,
                   successful, failed, tally, images, img_size, composite, cRow, cCol,
                   result>>

\* lines 177-233: overlaps, canvas size, the white canvas
Layout ==
    /\ mainPc = "call" /\ cPc = "layout"
    /\ composite' =
           [size |-> <<composite_width(img_size[1]), composite_height(img_size[2])>>,
            mode |-> "RGBA", ops |-> <<>>]
    /\ cRow' = 0
    /\ cCol' = 0
    /\ cPc' = "paste"
    /\ UNCHANGED <<fs, baseExists, argPartId, outDir, outputs, mainPc, part_ids, i,
                   successful, failed, tally, cK, images, img_size, images_to_use,
                   result>>

\* lines 237-251: paste the cell (row_idx, col_idx)
PasteCell ==
    /\ mainPc = "call" /\ cPc = "paste"
    /\ LET key == layout[cRow + 1][cCol + 1]
       IN  composite' =
               [composite EXCEPT !.ops =
                   Append(@, PasteOp(key, CellX(cCol, img_size[1]), CellY(cRow, img_size[2])))]
    /\ cCol' = IF cCol = 2 THEN 0 ELSE cCol + 1
    /\ cPc' = IF cCol = 2 THEN "rowlabel" ELSE "paste"
    /\ UNCHANGED <<fs, baseExists, argPartId, outDir, outputs, mainPc, part_ids, i,
                   successful, failed, tally, cK, images, img_size, images_to_use, cRow,
                   result>>

\* lines 253-267: the label of the row just pasted, inside the row loop
RowLabel ==
    /\ mainPc = "call" /\ cPc = "rowlabel"
    /\ composite' =
           [composite EXCEPT !.ops =
               Append(@, TextOp(row_labels[cRow + 1],
                                left_padding + label_width - label_overlay,
                                RowLabelY(cRow, img_size[2])))]
    /\ cRow' = IF cRow = 1 THEN 0 ELSE cRow + 1
    /\ cPc' = IF cRow = 1 THEN "collabel" ELSE "paste"
    /\ UNCHANGED <<fs, baseExists, argPartId, outDir, outputs, mainPc, part_ids, i,
                   successful, failed, tally, cK, images, img_size, images_to_use, cCol,
                   result>>

\* lines 270-298: a column's label and its description
ColLabel ==
    /\ mainPc = "call" /\ cPc = "collabel"
    /\ composite' =
           [composite EXCEPT !.ops =
               @ \o <<TextOp(column_labels[cCol + 1][1], ColLabelX(cCol, img_size[1]),
                             label_overlay),
                      TextOp(column_labels[cCol + 1][2], ColLabelX(cCol, img_size[1]),
                             label_overlay)>>]
    /\ cCol' = IF cCol = 2 THEN 0 ELSE cCol + 1
    /\ cPc' = IF cCol = 2 THEN "flatten" ELSE "collabel"
    /\ UNCHANGED <<fs, baseExists, argPartId, outDir, outputs, mainPc, part_ids, i,
                   successful, failed, tally, cK, images, img_size, images_to_use, cRow,
                   result>>

\* line 301: composite.convert("RGB")
Flatten ==
    /\ mainPc = "call" /\ cPc = "flatten"
    /\ composite' = [composite EXCEPT !.mode = "RGB"]
    /\ cPc' = "persist"
    /\ UNCHANGED <<fs, baseExists, argPartId, outDir, outputs, mainPc, part_ids, i,
                   successful, failed, tally, cK, images, img_size, images_to_use, cRow,
                   cCol, result>>

\* Persist refusing to replace a file that is already there
Persist_KeepExisting ==
    /\ mainPc = "call" /\ cPc = "persist"
    /\ outDir' = TRUE
    /\ outputs' = IF outputs[part_id] = None
                  THEN [outputs EXCEPT ![part_id] = Some(composite)]
                  ELSE outputs
    /\ cPc' = "return"
    /\ result' = (outputs[part_id] = None)
    /\ DropLocals
    /\ UNCHANGED <<fs, baseExists, argPartId, mainPc, part_ids, i, successful, failed,
                   tally>>

\* lines 304-308: mkdir, save, return True
Persist ==
    /\ mainPc = "call" /\ cPc = "persist"
    /\ outDir' = TRUE
    /\ outputs' = [outputs EXCEPT ![part_id] = Some(composite)]
    /\ cPc' = "return"
    /\ result' = TRUE
    /\ DropLocals
    /\ UNCHANGED <<fs, baseExists, argPartId, mainPc, part_ids, i, successful, failed,
                   tally>>

\* lines 305-306 when the file system refuses: mkdir raises (only a missing
\* directory is created), save raises before the file is opened, or save
\* raises with the file already opened for writing.  Neither
\* compose_comparison nor main catches the exception.
PersistRaises ==
    /\ mainPc = "call" /\ cPc = "persist"
    /\ \E at \in (IF outDir THEN {"open", "write"} ELSE {"mkdir", "open", "write"}) :
          CASE at = "mkdir" -> UNCHANGED <<outDir, outputs>>
            [] at = "open" -> outDir' = TRUE /\ UNCHANGED outputs
            [] at = "write" ->
                  /\ outDir' = TRUE
                  /\ outputs' = [outputs EXCEPT ![part_id] = Some(TruncatedFile)]
    /\ cPc' = "raised"
    /\ mainPc' = "crashed"
    /\ DropLocals
    /\ UNCHANGED <<fs, baseExists, argPartId, part_ids, i, successful, failed, tally,
                   result>>

\* -------------------------------------------------------------------- main
\* lines 348-366: the input directory, the list of identifiers, the counters
MainStart ==
    /\ mainPc = "start"
    /\ IF ~baseExists
       THEN /\ mainPc' = "returned"
            /\ UNCHANGED <<part_ids, i, successful, failed>>
       ELSE LET ids == IF argPartId # None THEN <<argPartId[1]>>
                       ELSE Sorted(get_all_part_ids)
            IN  IF argPartId = None /\ Len(ids) = 0
                THEN /\ mainPc' = "returned"
                     /\ UNCHANGED <<part_ids, i, successful, failed>>
                ELSE /\ part_ids' = ids
                     /\ i' = 1
                     /\ successful' = 0
                     /\ failed' = 0
                     /\ mainPc' = "loop"
    /\ UNCHANGED <<fs, baseExists, argPartId, outDir, outputs, tally, cPc, cK, images,
                   img_size, images_to_use, composite, cRow, cCol, result>>

\* line 369: the loop calls compose_comparison for the next identifier
CallCompose ==
    /\ mainPc = "loop" /\ i <= Len(part_ids)
    /\ mainPc' = "call"
    /\ cPc' = "discover"
    /\ cK' = 1
    /\ UNCHANGED <<fs, baseExists, argPartId, outDir, outputs, part_ids, i, successful,
                   failed, tally, images, img_size, images_to_use, composite, cRow, cCol,
                   result>>

\* CountResult with a False return left out of the count
CountResult_NoFailCount ==
    /\ mainPc = "call" /\ cPc = "return"
    /\ IF result
       THEN successful' = successful + 1 /\ UNCHANGED failed
       ELSE UNCHANGED <<successful, failed>>
    /\ i' = i + 1
    /\ mainPc' = "loop"
    /\ cPc' = "idle"
    /\ UNCHANGED <<fs, baseExists, argPartId, outDir, outputs, part_ids, tally, cK,
                   images, img_size, images_to_use, composite, cRow, cCol, result>>

\* lines 369-375: count the value returned, go to the next identifier
CountResult ==
    /\ mainPc = "call" /\ cPc = "return"
    /\ IF result
       THEN successful' = successful + 1 /\ UNCHANGED failed
       ELSE failed' = failed + 1 /\ UNCHANGED successful
    /\ i' = i + 1
    /\ mainPc' = "loop"
    /\ cPc' = "idle"
    /\ UNCHANGED <<fs, baseExists, argPartId, outDir, outputs, part_ids, tally, cK,
                   images, img_size, images_to_use, composite, cRow, cCol, result>>

\* line 377: the summary line
PrintSummary ==
    /\ mainPc = "loop" /\ i > Len(part_ids)
    /\ tally' = Some(<<successful, failed>>)
    /\ mainPc' = "done"
    /\ UNCHANGED <<fs, baseExists, argPartId, outDir, outputs, part_ids, i, successful,
                   failed, cPc, cK, images, img_size, images_to_use, composite, cRow,
                   cCol, result>>

\* ------------------------------------------------ the script, run once more
NoReturns == [p \in PartIdPool |-> None]

\* lines 369-370: the value compose_comparison hands back for part_id
NoteReturn ==
    /\ returned' = [returned EXCEPT ![run][part_id] = Some(result)]
    /\ UNCHANGED <<run, firstOutputs>>

\* lines 380-381: the script is started again with the same arguments on the
\* same tree; what the first execution wrote is still there
RunAgain ==
    /\ mainPc = "done" /\ run = 1
    /\ run' = 2
    /\ firstOutputs' = outputs
    /\ mainPc' = "start"
    /\ part_ids' = <<>> /\ i' = 0 /\ successful' = 0 /\ failed' = 0
    /\ tally' = None /\ result' = FALSE
    /\ UNCHANGED <<fs, baseExists, argPartId, outDir, outputs, cPc, cK, images,
                   img_size, images_to_use, composite, cRow, cCol, returned>>

\* -------------------------------------------------------------- blur_edges
MaxBlurDim == 5    \* largest side of an image given to blur_edges

MaxBlurSize == 7   \* largest blur_size given to blur_edges

\* pixels the input images are made of: <<r, g, b, a>>
Palette ==
    <<<<255, 0, 0, 255>>, <<0, 255, 0, 49>>, <<10, 20, 30, 128>>, <<0, 0, 255, 98>>,
      <<7, 7, 7, 0>>>>

Coords(w, h) == (0..(w - 1)) \X (0..(h - 1))

\* an RGBA image of w x h pixels, the palette laid over it from position shift
PatternImage(w, h, shift) ==
    [w |-> w, h |-> h, mode |-> "RGBA",
     px |-> [c \in Coords(w, h) |->
                Palette[((c[1] + 2 * c[2] + shift) % Len(Palette)) + 1]]]

\* the same picture stored without an alpha channel
DropAlpha(img) ==
    [img EXCEPT !.mode = "RGB",
                !.px = [c \in DOMAIN img.px |-> SubSeq(img.px[c], 1, 3)]]

\* a square RGBA image of one palette colour, wide enough for its middle
\* row and column to cross the widest band and reach the pixels beyond it
UniformImage(k) ==
    LET n == 2 * MaxBlurSize + 1
    IN  [w |-> n, h |-> n, mode |-> "RGBA", px |-> [c \in Coords(n, n) |-> Palette[k]]]

BlurInputs ==
    LET rgba == {PatternImage(w, h, shift) :
                    w \in 1..MaxBlurDim, h \in 1..MaxBlurDim, shift \in 0..(Len(Palette) - 1)}
    IN  rgba \cup {DropAlpha(PatternImage(w, h, 0)) : w \in 1..MaxBlurDim, h \in 1..MaxBlurDim}
             \cup {UniformImage(k) : k \in 1..Len(Palette)}

BlurSizes == (0 - 1)..MaxBlurSize

\* img.convert("RGBA"): an image without alpha becomes fully opaque
ConvertRGBA(img) ==
    IF img.mode = "RGBA" THEN img
    ELSE [img EXCEPT !.mode = "RGBA",
                     !.px = [c \in DOMAIN img.px |-> Append(img.px[c], 255)]]

\* Image.new("RGBA", (width, height), (0, 0, 0, 0))
NewImage(w, h) ==
    [w |-> w, h |-> h, mode |-> "RGBA", px |-> [c \in Coords(w, h) |-> <<0, 0, 0, 0>>]]

\* min_dist counting the border pixel itself as one pixel of distance
min_dist_OneBased(x, y, width, height) == Min({x + 1, width - x, y + 1, height - y})

\* lines 76-82: the distance to the nearest of the four borders
min_dist(x, y, width, height) == Min({x, width - 1 - x, y, height - 1 - y})

\* The inputs <<a, min_dist, blur_size>>, blur_size up to 12, for which the
\* double product a * (min_dist / blur_size) ** 2 falls just below the exact
\* quotient, an integer, so that int() yields one less than it.
DoubleShortfall ==
    {<<49, 1, 7>>, <<98, 1, 7>>, <<147, 1, 7>>, <<196, 1, 7>>, <<49, 2, 7>>,
     <<98, 2, 7>>, <<147, 2, 7>>, <<196, 2, 7>>, <<147, 3, 7>>, <<245, 3, 7>>,
     <<49, 4, 7>>, <<98, 4, 7>>, <<147, 4, 7>>, <<196, 4, 7>>, <<147, 6, 7>>,
     <<245, 6, 7>>, <<100, 7, 10>>, <<200, 7, 10>>, <<121, 3, 11>>, <<242, 3, 11>>,
     <<121, 5, 11>>, <<242, 5, 11>>, <<121, 6, 11>>, <<242, 6, 11>>, <<121, 10, 11>>,
     <<242, 10, 11>>, <<144, 11, 12>>}

\* new_alpha fading towards the inside of the band instead of the border
new_alpha_Inverted(a, d, blur_size) ==
    (a * (blur_size - d) * (blur_size - d)) \div (blur_size * blur_size)

\* lines 87-89: int(a * (min_dist / blur_size) ** 2), for 0 <= d < blur_size
new_alpha(a, d, blur_size) ==
    (a * d * d) \div (blur_size * blur_size)
        - (IF <<a, d, blur_size>> \in DoubleShortfall THEN 1 ELSE 0)

\* lines 63-71: conversion, size, the empty result
BlurBegin ==
    /\ bPc = "start"
    /\ bImg' = ConvertRGBA(bImg)
    /\ bResult' = NewImage(bImg.w, bImg.h)
    /\ bX' = 0
    /\ bY' = 0
    /\ bPc' = "loop"
    /\ UNCHANGED bSize

\* BlurPixel without its else branch: pixels outside the band are left as
\* Image.new made them
BlurPixel_NoElse ==
    /\ bPc = "loop" /\ bY < bImg.h
    /\ LET d == min_dist(bX, bY, bImg.w, bImg.h)
           p == bImg.px[<<bX, bY>>]
       IN  IF d < bSize
           THEN bResult' =
                    [bResult EXCEPT !.px[<<bX, bY>>] =
                        <<p[1], p[2], p[3], new_alpha(p[4], d, bSize)>>]
           ELSE UNCHANGED bResult
    /\ bX' = IF bX = bImg.w - 1 THEN 0 ELSE bX + 1
    /\ bY' = IF bX = bImg.w - 1 THEN bY + 1 ELSE bY
    /\ UNCHANGED <<bImg, bSize, bPc>>

\* lines 73-93: the body of the double loop for pixel (x, y)
BlurPixel ==
    /\ bPc = "loop" /\ bY < bImg.h
    /\ LET d == min_dist(bX, bY, bImg.w, bImg.h)
           p == bImg.px[<<bX, bY>>]
       IN  IF d < bSize
           THEN bResult' =
                    [bResult EXCEPT !.px[<<bX, bY>>] =
                        <<p[1], p[2], p[3], new_alpha(p[4], d, bSize)>>]
           ELSE bResult' = [bResult EXCEPT !.px[<<bX, bY>>] = p]
    /\ bX' = IF bX = bImg.w - 1 THEN 0 ELSE bX + 1
    /\ bY' = IF bX = bImg.w - 1 THEN bY + 1 ELSE bY
    /\ UNCHANGED <<bImg, bSize, bPc>>

\* line 95
BlurReturn ==
    /\ bPc = "loop" /\ bY = bImg.h
    /\ bPc' = "done"
    /\ UNCHANGED <<bImg, bSize, bResult, bX, bY>>

\* --------------------------------------------------------- add_soft_shadow
\* The shadow canvas is followed along its middle pixel row, which every
\* rounded rectangle crosses from its left to its right bound; the image is
\* taken tall enough for the corner arcs (radius 5) to stay clear of that row.
MaxShadowSize == 3   \* largest shadow_size given to add_soft_shadow

MaxShadowImg == 2    \* largest width of an image given to add_soft_shadow

ShadowOpacities == {0, 1, 20, 36, 255}

\* the alpha values of the image's middle row: transparent or opaque pixels
ShadowInputs == UNION {[1..w -> {0, 255}] : w \in 1..MaxShadowImg}

\* The inputs <<shadow_opacity, i, shadow_size>>, shadow_size up to 6, for
\* which the double product shadow_opacity * (1 - i / steps) ** 2 falls just
\* below the exact quotient, an integer, so that int() yields one less.
ShadowShortfall ==
    {<<36, 5, 3>>, <<72, 5, 3>>, <<108, 5, 3>>, <<144, 5, 3>>, <<180, 5, 3>>,
     <<216, 5, 3>>, <<252, 5, 3>>, <<25, 8, 5>>, <<50, 8, 5>>, <<75, 8, 5>>,
     <<100, 3, 5>>, <<100, 8, 5>>, <<100, 9, 5>>, <<125, 8, 5>>, <<150, 8, 5>>,
     <<175, 8, 5>>, <<200, 3, 5>>, <<200, 8, 5>>, <<200, 9, 5>>, <<225, 8, 5>>,
     <<250, 8, 5>>, <<36, 10, 6>>, <<72, 10, 6>>, <<108, 10, 6>>, <<144, 1, 6>>,
     <<144, 5, 6>>, <<144, 7, 6>>, <<144, 10, 6>>, <<180, 10, 6>>, <<216, 10, 6>>,
     <<252, 10, 6>>}

\* line 114
steps == shadow_size * 2

\* line 105, for the row: img.width + shadow_padding * 2
new_width == Len(sImg) + shadow_size * 2

\* lines 116-118: int(shadow_opacity * (1 - i / steps) ** 2)
ring_alpha(opacity, k, size) ==
    (opacity * (2 * size - k) * (2 * size - k)) \div ((2 * size) * (2 * size))
        - (IF <<opacity, k, size>> \in ShadowShortfall THEN 1 ELSE 0)

\* line 120: int(shadow_size * (i / steps)), exact for shadow_size up to 8
ring_offset(k, size) == (size * k) \div (2 * size)

\* lines 121-128 on the row: the fill replaces the pixels x0..x1 of the
\* canvas (ImageDraw writes the ink, it does not blend); x is 0-based
InRing(x, offset) == offset <= x /\ x <= new_width - offset

\* lines 104-114: the transparent canvas
ShadowBegin ==
    /\ sPc = "start"
    /\ shadow' = [x \in 1..new_width |-> 0]
    /\ sI' = 0
    /\ sPc' = "loop"
    /\ UNCHANGED <<sImg, shadow_size, shadow_opacity>>

\* lines 115-128: one turn of the ring loop
ShadowRing ==
    /\ sPc = "loop" /\ sI < steps
    /\ LET alpha == ring_alpha(shadow_opacity, sI, shadow_size)
           offset == ring_offset(sI, shadow_size)
       IN  IF alpha > 0
           THEN shadow' = [x \in 1..new_width |->
                              IF InRing(x - 1, offset) THEN alpha ELSE shadow[x]]
           ELSE UNCHANGED shadow
    /\ sI' = sI + 1
    /\ UNCHANGED <<sImg, shadow_size, shadow_opacity, sPc>>

\* lines 130-132: paste the image through its own alpha, return
ShadowPaste ==
    /\ sPc = "loop" /\ sI = steps
    /\ shadow' = [x \in 1..new_width |->
                     IF /\ x - 1 >= shadow_size
                        /\ x - 1 < shadow_size + Len(sImg)
                        /\ sImg[x - shadow_size] = 255
                     THEN 255 ELSE shadow[x]]
    /\ sPc' = "done"
    /\ UNCHANGED <<sImg, shadow_size, shadow_opacity, sI>>

\* ---------------------------------------------- render_animated_part
\* animated_comparison.py drives a RenderContext (import_mesh,
\* remove_current_mesh of render_context.py) through six variants and the
\* frames of a turntable.  A frame file is <<output_name, frame, tag>> for
\* animated/<part_id>/<output_name>/<frame:03d>_<tag>.png.
PlyExt == <<".", "p", "l", "y">>

ObjExt == <<".", "o", "b", "j">>

\* lines 143-150: <<variant_name, folder_name, output_name>>
render_configs ==
    <<<<"ours", "coarser_meshes240", "ours_coarser">>,
      <<"ours", "default_meshes240", "ours_default">>,
      <<"ours", "finer_meshes240", "ours_finer">>,
      <<"partfield", "coarser_partfield240", "partfield_coarser">>,
      <<"partfield", "default_partfield240", "partfield_default">>,
      <<"partfield", "finer_partfield240", "partfield_finer">>>>

FullTurn == 360

FrameStep == 2

\* line 161: list(range(0, 360, 2))
frames == {f \in 0..(FullTurn - 1) : f % FrameStep = 0}

\* str.endswith
EndsWith(name, tail) ==
    /\ Len(tail) <= Len(name)
    /\ SubSeq(name, Len(name) - Len(tail) + 1, Len(name)) = tail

\* pathlib's Path.stem: the name without its suffix
Stem(name) == SubSeq(name, 1, Len(name) - Len(Suffix(name)))

\* the pattern f"{part_id}*{ext}" of line 117
GlobMatch(name, prefix, ext) ==
    /\ StartsWith(name, prefix) /\ EndsWith(name, ext)
    /\ Len(name) >= Len(prefix) + Len(ext)

\* lines 104-121; exts is the order in which the set {'.ply', '.obj'} is
\* iterated
find_mesh_for_part(id, v, exts) ==
    IF meshDirs[v] = None THEN None
    ELSE LET names == meshDirs[v][1]
             try(ext) ==
                 IF \E k \in 1..Len(names) : names[k] = id \o ext
                 THEN Some(id \o ext)
                 ELSE LET g == {k \in 1..Len(names) : GlobMatch(names[k], id, ext)}
                      IN  IF g = {} THEN None ELSE Some(names[Min(g)])
         IN  IF try(exts[1]) # None THEN try(exts[1]) ELSE try(exts[2])

\* the part identifiers given on the command line: none of the text, or "7"
AnimPartIds == {<<>>, IdA}

\* every variant directory holds 7.ply, but for the second, which may be
\* missing, or empty, or hold the mesh of another part, or two formats, or a
\* file named ".ply"
MeshTrees ==
    LET base == [v \in 1..Len(render_configs) |-> Some(<<IdA \o PlyExt>>)]
    IN  {base} \cup
        {[base EXCEPT ![2] = d] :
            d \in {None, Some(<<>>), Some(<<IdC \o PlyExt>>),
                   Some(<<IdB \o ObjExt, IdA \o PlyExt>>), Some(<<PlyExt>>)}}

\* frame files an earlier execution may have left: none, those of an
\* execution interrupted in its second variant, or every third frame
PriorOutputs(tag) ==
    {{},
     {<<render_configs[1][3], f, tag>> : f \in frames}
         \cup {<<render_configs[2][3], f, tag>> : f \in {g \in frames : g < 100}},
     {<<render_configs[v][3], f, tag>> :
         v \in 1..Len(render_configs), f \in {g \in frames : g % 3 = 0}}}

\* lines 134-163: the two existence checks, the output directory, the
\* context (the blend file is opened: no imported object yet), the frames
AnimStart ==
    /\ aPc = "start"
    /\ IF ~blendExists \/ ~processedExists
       THEN /\ aPc' = "returned" /\ aResult' = FALSE /\ UNCHANGED aV
       ELSE /\ aPc' = "variant" /\ aV' = 1 /\ UNCHANGED aResult
    /\ UNCHANGED <<aPartId, blendExists, processedExists, meshDirs, files, frame,
                   mesh_path, current_mesh, mesh_stem, objects, aRun, filesAtStart,
                   written, renders, imported>>

\* lines 166-173: the variant's mesh; none, and the variant is skipped
FindMesh ==
    /\ aPc = "variant" /\ aV <= Len(render_configs)
    /\ \E exts \in {<<PlyExt, ObjExt>>, <<ObjExt, PlyExt>>} :
          mesh_path' = find_mesh_for_part(aPartId, aV, exts)
    /\ IF mesh_path' = None
       THEN aV' = aV + 1 /\ UNCHANGED aPc
       ELSE aPc' = "import" /\ UNCHANGED aV
    /\ UNCHANGED <<aPartId, blendExists, processedExists, meshDirs, files, frame,
                   current_mesh, mesh_stem, objects, aResult, aRun, filesAtStart,
                   written, renders, imported>>

\* lines 176-182 with import_mesh (render_context.py 48-77): a suffix other
\* than .ply and .obj imports nothing and the variant is skipped; otherwise
\* the imported object becomes current_mesh and the frame loop begins
ImportMesh ==
    /\ aPc = "import"
    /\ mesh_stem' = Some(Stem(mesh_path[1]))
    /\ IF Suffix(mesh_path[1]) \in {PlyExt, ObjExt}
       THEN /\ objects' = objects \cup {aV}
            /\ current_mesh' = Some(aV)
            /\ imported' = imported \cup {aV}
            /\ frame' = 0
            /\ aPc' = "frames"
            /\ UNCHANGED aV
       ELSE /\ aV' = aV + 1
            /\ aPc' = "variant"
            /\ UNCHANGED <<objects, current_mesh, imported, frame>>
    /\ UNCHANGED <<aPartId, blendExists, processedExists, meshDirs, files, mesh_path,
                   aResult, aRun, filesAtStart, written, renders>>

\* AnimatedRenderContext.render, lines 25-101: the file is named after
\* part_id if that is not empty and after mesh_stem if it is; the wireframe
\* copy of current_mesh is made and removed again within the call
AnimatedRender(output_name, fr) ==
    LET tag == IF aPartId # <<>> THEN aPartId ELSE mesh_stem[1]
    IN  /\ files' = files \cup {<<output_name, fr, tag>>}
        /\ written' = written \cup {<<output_name, fr, tag>>}
        /\ renders' = renders + 1

\* lines 187-198: one turn of the frame loop
FrameStepAction ==
    /\ aPc = "frames" /\ frame < FullTurn
    /\ IF <<render_configs[aV][3], frame, aPartId>> \in files
       THEN UNCHANGED <<files, written, renders>>
       ELSE AnimatedRender(render_configs[aV][3], frame)
    /\ frame' = frame + FrameStep
    /\ UNCHANGED <<aPartId, blendExists, processedExists, meshDirs, aPc, aV,
                   mesh_path, current_mesh, mesh_stem, objects, aResult, aRun,
                   filesAtStart, imported>>

\* line 201 with remove_current_mesh (render_context.py 79-81)
RemoveMesh ==
    /\ aPc = "frames" /\ frame >= FullTurn
    /\ objects' = objects \ {current_mesh[1]}
    /\ current_mesh' = None
    /\ aV' = aV + 1
    /\ aPc' = "variant"
    /\ UNCHANGED <<aPartId, blendExists, processedExists, meshDirs, files, frame,
                   mesh_path, mesh_stem, aResult, aRun, filesAtStart, written,
                   renders, imported>>

\* lines 203-204
AnimReturn ==
    /\ aPc = "variant" /\ aV > Len(render_configs)
    /\ aPc' = "returned"
    /\ aResult' = TRUE
    /\ UNCHANGED <<aPartId, blendExists, processedExists, meshDirs, files, aV, frame,
                   mesh_path, current_mesh, mesh_stem, objects, aRun, filesAtStart,
                   written, renders, imported>>

\* lines 258-259: the script is started again with the same arguments, on
\* the same meshes and on the frame files the first execution left
AnimRunAgain ==
    /\ aPc = "returned" /\ aResult /\ aRun = 1
    /\ aRun' = 2
    /\ filesAtStart' = files
    /\ written' = {} /\ renders' = 0 /\ imported' = {}
    /\ aPc' = "start" /\ aV' = 0 /\ frame' = 0 /\ aResult' = FALSE
    /\ mesh_path' = None /\ current_mesh' = None /\ mesh_stem' = None
    /\ objects' = {}
    /\ UNCHANGED <<aPartId, blendExists, processedExists, meshDirs, files>>

\* ------------------------------------------------------------ specification
BlurIdle ==
    /\ bImg = NewImage(0, 0) /\ bSize = 0
    /\ bResult = NewImage(0, 0) /\ bX = 0 /\ bY = 0 /\ bPc = "idle"

ShadowIdle ==
    /\ sImg = <<>> /\ shadow_size = 0 /\ shadow_opacity = 0
    /\ sI = 0 /\ shadow = <<>> /\ sPc = "idle"

MainIdle ==
    /\ fs = [d \in AllDirs |-> NoDirectory] /\ baseExists = FALSE /\ argPartId = None
    /\ outDir = FALSE /\ outputs = [p \in PartIdPool |-> None]
    /\ mainPc = "idle" /\ part_ids = <<>> /\ i = 0 /\ successful = 0 /\ failed = 0
    /\ tally = None /\ result = FALSE /\ ComposeIdle

AnimIdle ==
    /\ aPartId = <<>> /\ blendExists = FALSE /\ processedExists = FALSE
    /\ meshDirs = [v \in 1..Len(render_configs) |-> None] /\ files = {}
    /\ aPc = "idle" /\ aV = 0 /\ frame = 0 /\ mesh_path = None
    /\ current_mesh = None /\ mesh_stem = None /\ objects = {} /\ aResult = FALSE
    /\ aRun = 0 /\ filesAtStart = {} /\ written = {} /\ renders = 0 /\ imported = {}

RerunIdle ==
    /\ run = 0 /\ returned = <<NoReturns, NoReturns>> /\ firstOutputs = NoReturns

\* main() is about to run on some input tree, with or without --part-id, the
\* output directory absent or holding files of an earlier run
MainReady ==
    /\ \/ fs \in FileSystems /\ baseExists = TRUE
       \/ fs = [d \in AllDirs |-> NoDirectory] /\ baseExists \in BOOLEAN
    /\ argPartId \in {None} \cup {Some(p) : p \in PartIdPool}
    /\ \/ outDir = FALSE /\ outputs = [p \in PartIdPool |-> None]
       \/ outDir = TRUE /\ outputs = [p \in PartIdPool |-> Some(StaleFile)]
    /\ mainPc = "start" /\ part_ids = <<>> /\ i = 0 /\ successful = 0 /\ failed = 0
    /\ tally = None /\ result = FALSE /\ ComposeIdle

Init == MainReady /\ BlurIdle /\ ShadowIdle /\ RerunIdle /\ AnimIdle

vars == <<mainVars, blurVars, shadowVars, rerunVars, animVars>>

Next ==
    \/ MainStart /\ UNCHANGED <<blurVars, shadowVars, rerunVars, animVars>>
    \/ CallCompose /\ UNCHANGED <<blurVars, shadowVars, rerunVars, animVars>>
    \/ Discover /\ UNCHANGED <<blurVars, shadowVars, rerunVars, animVars>>
    \/ ReadDimensions /\ UNCHANGED <<blurVars, shadowVars, rerunVars, animVars>>
    \/ Transform /\ UNCHANGED <<blurVars, shadowVars, rerunVars, animVars>>
    \/ Layout /\ UNCHANGED <<blurVars, shadowVars, rerunVars, animVars>>
    \/ PasteCell /\ UNCHANGED <<blurVars, shadowVars, rerunVars, animVars>>
    \/ RowLabel /\ UNCHANGED <<blurVars, shadowVars, rerunVars, animVars>>
    \/ ColLabel /\ UNCHANGED <<blurVars, shadowVars, rerunVars, animVars>>
    \/ Flatten /\ UNCHANGED <<blurVars, shadowVars, rerunVars, animVars>>
    \/ Persist /\ UNCHANGED <<blurVars, shadowVars, rerunVars, animVars>>
    \/ PersistRaises /\ UNCHANGED <<blurVars, shadowVars, rerunVars, animVars>>
    \/ CountResult /\ UNCHANGED <<blurVars, shadowVars, rerunVars, animVars>>
    \/ PrintSummary /\ UNCHANGED <<blurVars, shadowVars, rerunVars, animVars>>

Spec == Init /\ [][Next]_vars

\* blur_edges is about to run on some image with some blur_size
InitBlur ==
    /\ bImg \in BlurInputs
    /\ bSize \in BlurSizes
    /\ bResult = NewImage(0, 0) /\ bX = 0 /\ bY = 0 /\ bPc = "start"
    /\ MainIdle /\ ShadowIdle /\ RerunIdle /\ AnimIdle

NextBlur ==
    \/ BlurBegin /\ UNCHANGED <<mainVars, shadowVars, rerunVars, animVars>>
    \/ BlurPixel /\ UNCHANGED <<mainVars, shadowVars, rerunVars, animVars>>
    \/ BlurReturn /\ UNCHANGED <<mainVars, shadowVars, rerunVars, animVars>>

SpecBlur == InitBlur /\ [][NextBlur]_vars

\* add_soft_shadow is about to run on some image, size and opacity
InitShadow ==
    /\ sImg \in ShadowInputs
    /\ shadow_size \in 0..MaxShadowSize
    /\ shadow_opacity \in ShadowOpacities
    /\ sI = 0 /\ shadow = <<>> /\ sPc = "start"
    /\ MainIdle /\ BlurIdle /\ RerunIdle /\ AnimIdle

NextShadow ==
    \/ ShadowBegin /\ UNCHANGED <<mainVars, blurVars, rerunVars, animVars>>
    \/ ShadowRing /\ UNCHANGED <<mainVars, blurVars, rerunVars, animVars>>
    \/ ShadowPaste /\ UNCHANGED <<mainVars, blurVars, rerunVars, animVars>>

SpecShadow == InitShadow /\ [][NextShadow]_vars

\* the script is run, and when it has finished it is run a second time
InitRerun ==
    /\ MainReady /\ BlurIdle /\ ShadowIdle /\ AnimIdle
    /\ run = 1 /\ returned = <<NoReturns, NoReturns>> /\ firstOutputs = NoReturns

NextRerun ==
    \/ MainStart /\ UNCHANGED <<blurVars, shadowVars, rerunVars, animVars>>
    \/ CallCompose /\ UNCHANGED <<blurVars, shadowVars, rerunVars, animVars>>
    \/ Discover /\ UNCHANGED <<blurVars, shadowVars, rerunVars, animVars>>
    \/ ReadDimensions /\ UNCHANGED <<blurVars, shadowVars, rerunVars, animVars>>
    \/ Transform /\ UNCHANGED <<blurVars, shadowVars, rerunVars, animVars>>
    \/ Layout /\ UNCHANGED <<blurVars, shadowVars, rerunVars, animVars>>
    \/ PasteCell /\ UNCHANGED <<blurVars, shadowVars, rerunVars, animVars>>
    \/ RowLabel /\ UNCHANGED <<blurVars, shadowVars, rerunVars, animVars>>
    \/ ColLabel /\ UNCHANGED <<blurVars, shadowVars, rerunVars, animVars>>
    \/ Flatten /\ UNCHANGED <<blurVars, shadowVars, rerunVars, animVars>>
    \/ Persist /\ UNCHANGED <<blurVars, shadowVars, rerunVars, animVars>>
    \/ PersistRaises /\ UNCHANGED <<blurVars, shadowVars, rerunVars, animVars>>
    \/ CountResult /\ NoteReturn /\ UNCHANGED <<blurVars, shadowVars, animVars>>
    \/ PrintSummary /\ UNCHANGED <<blurVars, shadowVars, rerunVars, animVars>>
    \/ RunAgain /\ UNCHANGED <<blurVars, shadowVars, animVars>>

SpecRerun == InitRerun /\ [][NextRerun]_vars

\* render_animated_part is about to run for some part_id on some mesh tree,
\* with or without frame files of an earlier execution; when it has
\* returned True the script is run a second time
InitAnim ==
    /\ aPartId \in AnimPartIds
    /\ blendExists \in BOOLEAN /\ processedExists \in BOOLEAN
    /\ meshDirs \in MeshTrees
    /\ files \in PriorOutputs(aPartId)
    /\ filesAtStart = files
    /\ aPc = "start" /\ aV = 0 /\ frame = 0 /\ mesh_path = None
    /\ current_mesh = None /\ mesh_stem = None /\ objects = {} /\ aResult = FALSE
    /\ aRun = 1 /\ written = {} /\ renders = 0 /\ imported = {}
    /\ MainIdle /\ BlurIdle /\ ShadowIdle /\ RerunIdle

NextAnim ==
    \/ AnimStart /\ UNCHANGED <<mainVars, blurVars, shadowVars, rerunVars>>
    \/ FindMesh /\ UNCHANGED <<mainVars, blurVars, shadowVars, rerunVars>>
    \/ ImportMesh /\ UNCHANGED <<mainVars, blurVars, shadowVars, rerunVars>>
    \/ FrameStepAction /\ UNCHANGED <<mainVars, blurVars, shadowVars, rerunVars>>
    \/ RemoveMesh /\ UNCHANGED <<mainVars, blurVars, shadowVars, rerunVars>>
    \/ AnimReturn /\ UNCHANGED <<mainVars, blurVars, shadowVars, rerunVars>>
    \/ AnimRunAgain /\ UNCHANGED <<mainVars, blurVars, shadowVars, rerunVars>>

SpecAnim == InitAnim /\ [][NextAnim]_vars

\* ================================================================== claims
\* directory dir holds no file whose name starts with id (or does not exist)
HoldsNoFileFor(id, dir) ==
    \/ ~fs[dir].exists
    \/ \A k \in 1..Len(fs[dir].entries) :
          ~(fs[dir].entries[k].isFile /\ StartsWith(fs[dir].entries[k].name, id))

MissingSource(id) == \E k \in Keys : HoldsNoFileFor(id, image_paths[k])

\* a file of dir whose name starts with id
IsHit(id, dir, n) ==
    fs[dir].entries[n].isFile /\ StartsWith(fs[dir].entries[n].name, id)

\* the sizes of the files selected for id, first hit of each directory
SourceSizes(id) ==
    UNION {{fs[image_paths[k]].entries[n].size :
                n \in {h \in 1..Len(fs[image_paths[k]].entries) :
                         /\ IsHit(id, image_paths[k], h)
                         /\ \A m \in 1..(h - 1) : ~IsHit(id, image_paths[k], m)}}
           : k \in Keys}

Composing == mainPc = "call"

\* C1: while compose_comparison runs for an identifier that lacks a file in
\* one of the six directories, it never gets past discovery, it writes
\* nothing (no output file, no output directory), it returns False, and
\* main counts that return as one failure and no success.
C1_MissingSourceFails ==
    [][(Composing /\ MissingSource(part_id)) =>
          /\ cPc' \in {"discover", "return", "idle"}
          /\ outputs' = outputs
          /\ outDir' = outDir
          /\ (cPc' = "return" => result' = FALSE)
          /\ (cPc = "return" =>
                failed' = failed + 1 /\ successful' = successful /\ i' = i + 1)]_vars

\* C1 witness: the sixth directory alone lacks the identifier's file, the
\* call has returned False and main has counted one failure for it.
C1_Witness ==
    /\ mainPc = "loop" /\ i = 2 /\ failed = 1 /\ successful = 0
    /\ HoldsNoFileFor(part_ids[1], image_paths["ours_T2"])
    /\ \A k \in Keys \ {"ours_T2"} : ~HoldsNoFileFor(part_ids[1], image_paths[k])
    /\ outputs[part_ids[1]] = None

\* C2 (as claimed): a call that returns True had six sources of one size.
C2_MismatchIsNotSuccess ==
    (Composing /\ cPc = "return" /\ result) =>
        Cardinality(SourceSizes(part_id)) = 1

\* C3 (as claimed): on the canvas no cell is pasted after a label was drawn.
C3_PastesBeforeLabels ==
    \A m, n \in 1..Len(composite.ops) :
        (m < n /\ composite.ops[m].op = "text") => composite.ops[n].op # "paste"

\* C4 (as claimed): a run that had identifiers to process and has ended has
\* processed every one of them and has printed the tally.
C4_TallyAlwaysReported ==
    mainPc \in {"done", "crashed"} =>
        /\ tally # None
        /\ i = Len(part_ids) + 1

\* the distance d of the claims, from the coordinates alone
BorderDistance(c, img) ==
    LET ds == {c[1], img.w - 1 - c[1], c[2], img.h - 1 - c[2]}
    IN  CHOOSE d \in ds : \A e \in ds : d <= e

\* C5: when blur_edges has returned, the result has the size of the input
\* and every pixel at distance d >= blur_size from the border carries the
\* input's red, green, blue and alpha unchanged.
C5_InteriorUnchanged ==
    bPc = "done" =>
        /\ bResult.w = bImg.w /\ bResult.h = bImg.h
        /\ DOMAIN bResult.px = DOMAIN bImg.px
        /\ \A c \in DOMAIN bImg.px :
              BorderDistance(c, bImg) >= bSize => bResult.px[c] = bImg.px[c]

\* C5 witness: a returned result with a positive band that has pixels on both
\* sides of it, one of the untouched ones being neither transparent nor black.
C5_Witness ==
    /\ bPc = "done" /\ bSize >= 1
    /\ \E c \in DOMAIN bImg.px :
          /\ BorderDistance(c, bImg) >= bSize
          /\ bImg.px[c][4] \notin {0, 255}
          /\ bResult.px[c] = bImg.px[c]
    /\ \E c \in DOMAIN bImg.px :
          BorderDistance(c, bImg) < bSize /\ bResult.px[c] # bImg.px[c]

\* a * d^2 / b^2 rounded to the nearest integer
RoundedFade(a, d, b) == (2 * a * d * d + b * b) \div (2 * b * b)

\* C6 (as claimed): inside the band the result's alpha is a * (d/b)^2 rounded
\* to the nearest integer, and red, green and blue are the input's.
C6_BandAlphaRounded ==
    (bPc = "done" /\ bSize > 0) =>
        \A c \in DOMAIN bImg.px :
            BorderDistance(c, bImg) < bSize =>
                /\ SubSeq(bResult.px[c], 1, 3) = SubSeq(bImg.px[c], 1, 3)
                /\ bResult.px[c][4] = RoundedFade(bImg.px[c][4], BorderDistance(c, bImg), bSize)

\* C7 (as claimed): blur_edges never returns an image for blur_size <= 0.
C7_NonPositiveBandRejected == ~(bPc = "done" /\ bSize <= 0)

\* C8 (as claimed): in the finished shadow the alpha never decreases along the
\* row from the canvas's left edge to the image, nor from its right edge.
C8_HaloOpaqueTowardImage ==
    sPc = "done" =>
        /\ \A x \in 1..(shadow_size - 1) : shadow[x] <= shadow[x + 1]
        /\ \A x \in (shadow_size + Len(sImg) + 1)..(new_width - 1) :
              shadow[x] >= shadow[x + 1]

\* v = floor(n * 0.15), by the inequalities that define the floor
IsFloorOf15Percent(v, n) == 100 * v <= 15 * n /\ 15 * n < 100 * (v + 1)

AfterLayout == Composing /\ cPc \in {"paste", "rowlabel", "collabel", "flatten", "persist"}

\* C9: once the layout is computed, with W x H the image size, h_overlap =
\* floor(0.15 W) and v_overlap = floor(0.15 H): the canvas is left_padding +
\* label_width + W + 2 (W - h_overlap) wide and H + (H - v_overlap) tall, and
\* every cell pasted so far, at row r and column c, sits at x = left_padding +
\* label_width + c (W - h_overlap), y = r (H - v_overlap); so the W x H cell
\* lies inside the canvas, column 2 ends at its right edge and row 1 at its
\* bottom edge.
C9_OverlapLayout ==
    AfterLayout =>
        LET W == img_size[1]
            H == img_size[2]
            ho == CHOOSE v \in 0..W : IsFloorOf15Percent(v, W)
            vo == CHOOSE v \in 0..H : IsFloorOf15Percent(v, H)
            cw == composite.size[1]
            ch == composite.size[2]
            at(r, c) == [op |-> "paste", what |-> layout[r + 1][c + 1],
                         x |-> left_padding + label_width + c * (W - ho),
                         y |-> r * (H - vo)]
        IN  /\ W >= 1 /\ H >= 1
            /\ cw = left_padding + label_width + W + 2 * (W - ho)
            /\ ch = H + (H - vo)
            /\ \A n \in 1..Len(composite.ops) :
                  composite.ops[n].op = "paste" =>
                      \E r \in 0..1, c \in 0..2 :
                          /\ composite.ops[n] = at(r, c)
                          /\ at(r, c).x >= 0 /\ at(r, c).y >= 0
                          /\ at(r, c).x + W <= cw /\ at(r, c).y + H <= ch
                          /\ (c = 2 => at(r, c).x + W = cw)
                          /\ (r = 1 => at(r, c).y + H = ch)

\* C9 witness: all six cells pasted for an image whose two overlaps are
\* positive and differ.
C9_Witness ==
    /\ AfterLayout /\ cPc = "flatten"
    /\ Cardinality({n \in 1..Len(composite.ops) : composite.ops[n].op = "paste"}) = 6
    /\ horizontal_overlap(img_size[1]) >= 1
    /\ img_size[2] >= 7
    /\ img_size[1] # img_size[2]

\* C10 (as claimed): six 512x512 sources give a canvas of 1716 x 1114, the
\* padded mode's label_width + 3 cell_width + 2 cell_padding by label_height +
\* 2 cell_height + cell_padding with 120, 60 and 30.
C10_PaddedCanvas ==
    (AfterLayout /\ SourceSizes(part_id) = {<<512, 512>>} /\ ~MissingSource(part_id)) =>
        composite.size = <<120 + 3 * 512 + 2 * 30, 60 + 2 * 512 + 30>>

\* the directory whose image belongs in the cell at row r, column c
CellSource(r, c) ==
    <<IF r = 0 THEN "partfield" ELSE "ours",
      CASE r = 0 /\ c = 0 -> "default_partfield240"
        [] r = 0 /\ c = 1 -> "finer_partfield240"
        [] r = 0 /\ c = 2 -> "coarser_partfield240"
        [] r = 1 /\ c = 0 -> "default_meshes240"
        [] r = 1 /\ c = 1 -> "finer_meshes240"
        [] r = 1 /\ c = 2 -> "coarser_meshes240">>

\* the first file of dir whose name starts with id
FirstHit(id, dir) ==
    fs[dir].entries[
        CHOOSE h \in 1..Len(fs[dir].entries) :
            /\ IsHit(id, dir, h)
            /\ \A m \in 1..(h - 1) : ~IsHit(id, dir, m)]

PastesOf(canvas) == SelectSeq(canvas.ops, LAMBDA o : o.op = "paste")

\* C11: the pastes on the canvas are, in this order, the cells (0,0), (0,1),
\* (0,2), (1,0), (1,1), (1,2); the n-th paste puts, at that cell's origin, the
\* faded image of the file found in the cell's own directory (row 0
\* partfield, row 1 ours; columns default, finer, coarser); once the paste
\* loop is over there are exactly six pastes.  The canvas keeps its
\* operations in the order applied, so of two overlapping cells the one
\* later in this order is the one on top.
C11_RowMajorPastes ==
    AfterLayout =>
        LET ps == PastesOf(composite)
        IN  /\ Len(ps) <= 6
            /\ (cPc \in {"collabel", "flatten", "persist"} => Len(ps) = 6)
            /\ \A n \in 1..Len(ps) :
                  LET r == (n - 1) \div 3
                      c == (n - 1) % 3
                      img == images_to_use[ps[n].what][1]
                      src == FirstHit(part_id, CellSource(r, c))
                  IN  /\ image_paths[ps[n].what] = CellSource(r, c)
                      /\ img.name = src.name /\ img.size = src.size
                      /\ ps[n].x = CellX(c, img_size[1])
                      /\ ps[n].y = CellY(r, img_size[2])

\* C11 witness: six pastes on a canvas whose neighbouring cells overlap in
\* both directions, the sources not all being the same file name.
C11_Witness ==
    /\ AfterLayout /\ cPc = "flatten"
    /\ Len(PastesOf(composite)) = 6
    /\ horizontal_overlap(img_size[1]) >= 1 /\ vertical_overlap(img_size[2]) >= 1
    /\ Cardinality({images_to_use[k][1].name : k \in Keys}) = 2

\* C12: when compose_comparison has returned for an identifier in the second
\* execution, it returned what it returned for that identifier in the first
\* and the identifier's output file is as the first execution left it; when
\* the second execution has finished, comparisons/ holds exactly the files,
\* with exactly the content, that the first execution left.
C12_RerunIdempotent ==
    run = 2 =>
        /\ \A p \in PartIdPool :
              returned[2][p] # None =>
                  /\ returned[2][p] = returned[1][p]
                  /\ outputs[p] = firstOutputs[p]
        /\ (mainPc = "done" => outputs = firstOutputs)

\* the second execution has finished; it composed an identifier again and
\* failed another one again
C12_Witness ==
    /\ run = 2 /\ mainPc = "done"
    /\ \E p \in PartIdPool :
          /\ returned[2][p] = Some(TRUE)
          /\ outputs[p] # None /\ outputs[p][1].mode = "RGB"
    /\ \E p \in PartIdPool : returned[2][p] = Some(FALSE) /\ returned[1][p] = Some(FALSE)

\* two pixels of one row or of one column
OnOneLine(c, e) == c[1] = e[1] \/ c[2] = e[2]

\* C13: when blur_edges has returned for a band width b > 0, of two pixels
\* of one row or column that had the same alpha in the input, the one nearer
\* to the border has the smaller or the same alpha in the result, and no
\* pixel of the result has more alpha than it had in the input.
C13_AlphaMonotone ==
    (bPc = "done" /\ bSize > 0) =>
        /\ \A c \in DOMAIN bImg.px : bResult.px[c][4] <= bImg.px[c][4]
        /\ \A c, e \in DOMAIN bImg.px :
              (/\ OnOneLine(c, e)
               /\ bImg.px[c][4] = bImg.px[e][4]
               /\ BorderDistance(c, bImg) <= BorderDistance(e, bImg))
                  => bResult.px[c][4] <= bResult.px[e][4]

\* a row of one input alpha that crosses the whole band: its result rises
\* strictly from the border pixel over a band pixel to the pixel at d = b
C13_Witness ==
    /\ bPc = "done" /\ bSize >= 3
    /\ \E y \in 0..(bImg.h - 1) :
          /\ \A x \in 0..(bImg.w - 1) : bImg.px[<<x, y>>][4] = bImg.px[<<0, y>>][4]
          /\ \E x1, x2 \in 0..(bImg.w - 1) :
                /\ BorderDistance(<<0, y>>, bImg) = 0
                /\ BorderDistance(<<x1, y>>, bImg) \in 1..(bSize - 1)
                /\ BorderDistance(<<x2, y>>, bImg) = bSize
                /\ bResult.px[<<0, y>>][4] < bResult.px[<<x1, y>>][4]
                /\ bResult.px[<<x1, y>>][4] < bResult.px[<<x2, y>>][4]
                /\ bResult.px[<<x2, y>>][4] = bImg.px[<<x2, y>>][4]

\* C14: when blur_edges has returned for a band width b > 0, every pixel on
\* the border of the result (d = 0), the four corners among them, has alpha 0.
C14_BorderTransparent ==
    (bPc = "done" /\ bSize > 0) =>
        \A c \in DOMAIN bImg.px :
            BorderDistance(c, bImg) = 0 => bResult.px[c][4] = 0

\* a returned result whose four corners and one more border pixel were
\* opaque in the input, and which keeps some alpha away from the border
C14_Witness ==
    /\ bPc = "done" /\ bSize > 0 /\ bImg.w >= 3 /\ bImg.h >= 3
    /\ \A c \in {0, bImg.w - 1} \X {0, bImg.h - 1} :
          bImg.px[c][4] = 255 /\ bResult.px[c][4] = 0
    /\ \E c \in DOMAIN bImg.px :
          /\ BorderDistance(c, bImg) = 0 /\ c[1] \notin {0, bImg.w - 1}
          /\ bImg.px[c][4] = 255 /\ bResult.px[c][4] = 0
    /\ \E c \in DOMAIN bImg.px : bResult.px[c][4] > 0

\* C15 (as claimed): while compose_comparison works on an identifier that
\* get_all_part_ids derives from the tree, every image it has selected is a
\* file of that identifier: the text before the first underscore of its name
\* is the identifier.
C15_SelectedFileIsOfThePart ==
    (Composing /\ part_id \in get_all_part_ids) =>
        \A k \in Keys :
            images[k] # None => SplitFirst(images[k][1].name) = part_id

\* the identifiers main() has finished with: compose_comparison was called
\* for them and its return value was counted
Processed == IF mainPc \in {"loop", "call", "done"} THEN i - 1 ELSE 0

\* C16: from the start of the batch loop on, successful + failed is the
\* number of identifiers processed so far, the identifier in work is the next
\* one of the list (so each is passed to compose_comparison once, in list
\* order), successful is the number of processed identifiers for which
\* compose_comparison returned True, and when the loop has ended
\* successful + failed is the length of the list.
C16_BatchAccounting ==
    (run >= 1 /\ mainPc \in {"loop", "call", "done"}) =>
        /\ i \in 1..(Len(part_ids) + 1)
        /\ (mainPc = "call" => i <= Len(part_ids))
        /\ successful + failed = Processed
        /\ \A m, n \in 1..Len(part_ids) : part_ids[m] = part_ids[n] => m = n
        /\ successful =
              Cardinality({n \in 1..Processed : returned[run][part_ids[n]] = Some(TRUE)})
        /\ failed =
              Cardinality({n \in 1..Processed : returned[run][part_ids[n]] = Some(FALSE)})
        /\ \A n \in (Processed + 1)..Len(part_ids) : returned[run][part_ids[n]] = None
        /\ (mainPc = "done" =>
               /\ successful + failed = Len(part_ids)
               /\ tally = Some(<<successful, failed>>))

\* a batch of two identifiers has ended with one success and one failure
C16_Witness ==
    /\ run = 1 /\ mainPc = "done" /\ Len(part_ids) = 2
    /\ successful = 1 /\ failed = 1
    /\ returned[1][part_ids[1]] # returned[1][part_ids[2]]

\* the frames of variant v that have a file, under whatever name the
\* renderer gave it
FramesOnDisk(v) == {w[2] : w \in {x \in files : x[1] = render_configs[v][3]}}

\* C17 (as claimed): at most one imported mesh is in the scene; no frame
\* file that was there when the execution began is rendered again, and none
\* is rendered while the file the loop looks for exists; every render() call
\* is for another frame of another variant; when the function has returned
\* True every imported variant has a file for each of the 180 frames; and
\* the second execution, after a complete first one, renders nothing.
C17_ResumableRendering ==
    /\ Cardinality(objects) <= 1
    /\ written \cap filesAtStart = {}
    /\ \A w \in written : <<w[1], w[2], aPartId>> \notin filesAtStart
    /\ renders = Cardinality({<<w[1], w[2]>> : w \in written})
    /\ (aPc = "returned" /\ aResult) =>
           \A v \in imported : FramesOnDisk(v) = frames
    /\ aRun = 2 => renders = 0

====
